---- MODULE Spec2Model ----
(***************************************************************************)
(* State-machine model of simglucose's T1DPatient                          *)
(* (src/simglucose/patient/t1dpatient.py): the meal-announcement buffer,   *)
(* the eating-episode bookkeeping of step(), reset(), and the right-hand   *)
(* side model() of the 18-state ODE.                                       *)
(*                                                                         *)
(* Quantities are integers: grams of CHO, and time in grid points of       *)
(* 1/Resolution minute.  The scipy integrator is outside the repository;   *)
(* one call of integrate() is a nondeterministic choice of the state       *)
(* vector it returns and of whether it succeeded.                          *)
(***************************************************************************)
EXTENDS Integers, FiniteSets, Sequences, TLC

VARIABLES
    init_state,       \* self.init_state: the stomach compartments [0], [1]
    t0,               \* self.t0
    planned_meal,     \* self.planned_meal
    is_eating,        \* self.is_eating
    last_Qsto,        \* self._last_Qsto
    last_foodtaken,   \* self._last_foodtaken
    last_action,      \* self._last_action
    f_params,         \* the integrator's f_params tuple (params left out)
    state,            \* self._odesolver.y (components 0 and 1)
    t,                \* self._odesolver.t, in grid points
    success,          \* what self._odesolver.successful() returns
    op,               \* the last call: "init", "reset" or "step"
    outcome,          \* how the last call ended: "returned" or "raised"
    calls,            \* number of step() calls since the last reset()
    steps_total,      \* history: step() calls since construction
    resets_total,     \* history: reset() calls since construction
    announced,        \* history: CHO announced by the last step
    to_eat,           \* history: value _announce_meal returned in the last step
    announced_total,  \* history: sum of announced CHO since reset()
    eaten_total,      \* history: sum of to_eat since reset()
    episode_sum,      \* history: sum of to_eat since the last episode start
    x,                \* model(): state argument, 18 components
    m_action,         \* model(): action argument
    m_last_Qsto,      \* model(): last_Qsto argument
    m_last_foodtaken, \* model(): last_foodtaken argument
    dxdt,             \* model(): the returned derivative
    evaluated         \* model() has been called on the arguments

vars == <<init_state, t0, planned_meal, is_eating, last_Qsto, last_foodtaken,
          last_action, f_params, state, t, success, op, outcome, calls,
          steps_total, resets_total, announced, to_eat, announced_total,
          eaten_total, episode_sum, x, m_action, m_last_Qsto, m_last_foodtaken, dxdt,
          evaluated>>

patientVars == <<init_state, t0, planned_meal, is_eating, last_Qsto,
                 last_foodtaken, last_action, f_params, state, t, success,
                 op, outcome, calls, steps_total, resets_total, announced, to_eat,
                 announced_total, eaten_total, episode_sum>>

modelVars == <<x, m_action, m_last_Qsto, m_last_foodtaken, dxdt, evaluated>>

----------------------------------------------------------------------------
(* Program constants *)

SAMPLE_TIME == 1

EAT_RATE == 5

ScenarioCHO == 80

(* Bounds of the model *)

Resolution == 2

MaxCalls == 4

MaxBacklog == 9

MaxDrainCalls == 19

MaxAnnounce == 12

MaxX == 2

(* Sample inputs *)

CHOInputs == {-3, 0, 2, 7}

InsulinInputs == {0, 1}

DrainAmounts == (1..MaxAnnounce) \cup {ScenarioCHO}

InitStates == {[i \in 0..1 |-> 0], [i \in 0..1 |-> IF i = 0 THEN 1 ELSE 0]}

StateSet == InitStates \cup {[i \in 0..1 |-> 1]}

StartTimes == {0, 3}

Min(a, b) == IF a < b THEN a ELSE b

Max(a, b) == IF a > b THEN a ELSE b

----------------------------------------------------------------------------
(* Action = namedtuple("patient_action", ['CHO', 'insulin']) *)
Action(cho, ins) == [CHO |-> cho, insulin |-> ins]

(* _announce_meal without the rate cap on a small backlog *)
announce_meal_nocap(pm, meal) ==
    LET pm1 == pm + meal IN
    IF pm1 > 0
    THEN [to_eat |-> EAT_RATE, planned_meal |-> Max(0, pm1 - EAT_RATE)]
    ELSE [to_eat |-> 0, planned_meal |-> pm1]

(* _announce_meal eating the whole backlog at once *)
announce_meal_all(pm, meal) ==
    LET pm1 == pm + meal IN
    IF pm1 > 0
    THEN [to_eat |-> pm1, planned_meal |-> 0]
    ELSE [to_eat |-> 0, planned_meal |-> pm1]

(* _announce_meal: the new backlog and the amount to eat now *)
announce_meal(pm, meal) ==
    LET pm1 == pm + meal IN
    IF pm1 > 0
    THEN LET eat == Min(EAT_RATE, pm1) IN
         [to_eat |-> eat, planned_meal |-> Max(0, pm1 - eat)]
    ELSE [to_eat |-> 0, planned_meal |-> pm1]

(* the announced action passed on unchanged *)
AdjustedAction_announced(action, eat) == action

(* action._replace(CHO=to_eat) *)
AdjustedAction(action, eat) == [action EXCEPT !.CHO = eat]

(* an episode start that needs a negative previous amount *)
StartsEating_strict(cho, last_cho) == cho > 0 /\ last_cho < 0

(* "Detect eating": this step eats and the previous one did not *)
StartsEating(cho, last_cho) == cho > 0 /\ last_cho <= 0

(* an episode end that needs a negative amount *)
EndsEating_strict(cho, last_cho) == cho < 0 /\ last_cho > 0

(* "Detect eating ended" *)
EndsEating(cho, last_cho) == cho <= 0 /\ last_cho > 0

(* self._last_foodtaken += action.CHO, done while is_eating *)
Accumulate(eating, foodtaken, cho) ==
    IF eating THEN foodtaken + cho ELSE foodtaken

(* The ODE solver part of step(): successful() is asked before integrate(),
   so it reports on the previous call's integration.  integrate() returns
   without raising either way; when it fails it leaves t short of the
   target and successful() false.  The bare `raise` of the else branch
   ends the call with an exception. *)
Integrate ==
    IF success
    THEN /\ \E ok \in BOOLEAN, y \in StateSet :
              /\ state' = y
              /\ success' = ok
              /\ IF ok
                 THEN t' = t + SAMPLE_TIME * Resolution
                 ELSE \E k \in 0..(SAMPLE_TIME * Resolution - 1) : t' = t + k
         /\ outcome' = "returned"
    ELSE /\ outcome' = "raised"
         /\ UNCHANGED <<state, t, success>>

(* step(action) *)
Step(action) ==
    LET am      == announce_meal(planned_meal, action.CHO)
        act     == AdjustedAction(action, am.to_eat)
        starts  == StartsEating(act.CHO, last_action.CHO)
        Qsto1   == IF starts THEN state[0] + state[1] ELSE last_Qsto
        food1   == IF starts THEN 0 ELSE last_foodtaken
        eating1 == IF starts THEN TRUE ELSE is_eating
        food2   == Accumulate(eating1, food1, act.CHO)
        eating2 == IF EndsEating(act.CHO, last_action.CHO)
                   THEN FALSE ELSE eating1
    IN  /\ planned_meal' = am.planned_meal
        /\ last_Qsto' = Qsto1
        /\ last_foodtaken' = food2
        /\ is_eating' = eating2
        /\ last_action' = act
        /\ f_params' = <<act, Qsto1, food2>>
        /\ Integrate
        /\ op' = "step"
        /\ calls' = calls + 1
        /\ steps_total' = steps_total + 1
        /\ UNCHANGED resets_total
        /\ announced' = action.CHO
        /\ to_eat' = am.to_eat
        /\ announced_total' = announced_total + action.CHO
        /\ eaten_total' = eaten_total + am.to_eat
        /\ episode_sum' = IF am.to_eat > 0 /\ to_eat <= 0 THEN am.to_eat
                          ELSE episode_sum + am.to_eat
        /\ UNCHANGED <<init_state, t0>>
        /\ UNCHANGED modelVars

(* What reset() assigns: a fresh integrator at (init_state, t0), no
   f_params, zero previous action, not eating, empty backlog *)
ResetFields_stale ==
    /\ last_Qsto' = init_state[0] + init_state[1]
    /\ last_foodtaken' = 0
    /\ state' = init_state
    /\ t' = t0 * Resolution
    /\ success' = TRUE
    /\ f_params' = <<>>
    /\ last_action' = Action(0, 0)
    /\ is_eating' = FALSE
    /\ planned_meal' = planned_meal

ResetFields ==
    /\ last_Qsto' = init_state[0] + init_state[1]
    /\ last_foodtaken' = 0
    /\ state' = init_state
    /\ t' = t0 * Resolution
    /\ success' = TRUE
    /\ f_params' = <<>>
    /\ last_action' = Action(0, 0)
    /\ is_eating' = FALSE
    /\ planned_meal' = 0

(* reset() *)
Reset ==
    /\ ResetFields
    /\ op' = "reset"
    /\ outcome' = "returned"
    /\ calls' = 0
    /\ resets_total' = resets_total + 1
    /\ UNCHANGED steps_total
    /\ announced' = 0
    /\ to_eat' = 0
    /\ announced_total' = 0
    /\ eaten_total' = 0
    /\ episode_sum' = 0
    /\ UNCHANGED <<init_state, t0>>
    /\ UNCHANGED modelVars

----------------------------------------------------------------------------
(* model(t, x, action, params, last_Qsto, last_foodtaken), in integer
   arithmetic: a / b is a \div b, the fractions params.b and params.d are in
   hundredths, and the transcendental functions are integer stand-ins. *)

(* One parameter row (the columns model() reads), with integer values *)
PatientParams ==
    [BW |-> 2, u2ss |-> 1, kmax |-> 4, kmin |-> 2, b |-> 80, d |-> 10,
     kabs |-> 1, f |-> 1, kp1 |-> 3, kp2 |-> 1, kp3 |-> 1, kcounter |-> 1,
     Fsnc |-> 1, ke1 |-> 1, ke2 |-> 1, k1 |-> 1, k2 |-> 2, Vg |-> 1,
     Gth |-> 1, Gb |-> 2, r1 |-> 1, Vm0 |-> 2, Vmx |-> 1, Km0 |-> 2,
     r3 |-> 1, m1 |-> 1, m2 |-> 2, m4 |-> 1, m30 |-> 1, Vi |-> 1,
     p2u |-> 1, Ib |-> 1, ki |-> 1, ka1 |-> 1, ka2 |-> 2, kd |-> 1,
     ksc |-> 1, kGSRd |-> 1, k01g |-> 1, kXGn |-> 1, Gnb |-> 1, Ith |-> 1,
     kGSRs |-> 1, SRb |-> 1, r2 |-> 1, SQgluc_k1 |-> 1, SQgluc_kc1 |-> 1,
     SQgluc_k2 |-> 2]

(* np.tanh of num / den, in hundredths: the identity near 0, saturating at
   -1 and 1 *)
Tanh(num, den) == Max(-100, Min(100, (100 * num) \div den))

(* np.log of num / den: a stand-in with the logarithm's sign and zero *)
Log(num, den) == num - den

(* (x >= 0) * dxdt, a bool times a number *)
Clamp(xi, di) == (IF xi >= 0 THEN 1 ELSE 0) * di

(* The components whose derivative model() multiplies by (x[i] >= 0) *)
ClampedComponents_missing == {3, 4, 5, 9, 10, 11, 13, 15, 16, 17}

ClampedComponents == {3, 4, 5, 9, 10, 11, 12, 13, 15, 16, 17}

(* The right-hand sides as model() writes them before each clamp; nan is
   the set of components that a division by zero makes non-finite *)
dynamics(xx, action, params, lq, lf) ==
    LET d       == action.CHO * 1000
        insulin == (action.insulin * 6000) \div params.BW
        qsto    == xx[0] + xx[1]
        Dbar    == lq + lf
        kgut    == IF Dbar > 0
                   THEN params.kmin +
                        ((params.kmax - params.kmin) *
                         (Tanh(5 * (100 * qsto - params.b * Dbar),
                               2 * (100 - params.b) * Dbar)
                          - Tanh(5 * (100 * qsto - params.d * Dbar),
                                 2 * params.d * Dbar)
                          + 200)) \div 200
                   ELSE params.kmax
        Rat     == (params.f * params.kabs * xx[2]) \div params.BW
        EGPt    == params.kp1 - params.kp2 * xx[3] - params.kp3 * xx[8]
                   + params.kcounter * xx[14]
        Uiit    == params.Fsnc
        Et      == IF xx[3] > params.ke2
                   THEN params.ke1 * (xx[3] - params.ke2) ELSE 0
        raw3    == Max(EGPt, 0) + Rat - Uiit - Et
                   - params.k1 * xx[3] + params.k2 * xx[4]
        dxdt3   == Clamp(xx[3], raw3)
        Gt      == xx[3] \div params.Vg
        fG      == IF Gt < params.Gth
                   THEN params.r1 * Log(params.Gth, params.Gb)
                   ELSE params.r1 * Log(Gt, params.Gb)
        risk    == IF Gt > params.Gb THEN 0 ELSE 10 * fG * fG
        Vmt     == params.Vm0 + params.Vmx * xx[6]
        Kmt     == params.Km0
        Uidt    == IF Kmt + xx[4] = 0 THEN 0
                   ELSE (Vmt * (1 + params.r3 * risk) * xx[4])
                        \div (Kmt + xx[4])
        It      == xx[5] \div params.Vi
        SRd     == params.kGSRd * Max((-dxdt3) \div params.Vg, 0)
        SRt     == xx[15] + SRd
        raw ==
          [i \in 0..17 |->
            CASE i = 0  -> -params.kmax * xx[0] + d
              [] i = 1  -> params.kmax * xx[0] - xx[1] * kgut
              [] i = 2  -> kgut * xx[1] - params.kabs * xx[2]
              [] i = 3  -> raw3
              [] i = 4  -> -Uidt + params.k1 * xx[3] - params.k2 * xx[4]
              [] i = 5  -> -(params.m2 + params.m4) * xx[5]
                           + params.m1 * xx[9] + params.ka1 * xx[10]
                           + params.ka2 * xx[11]
              [] i = 6  -> -params.p2u * xx[6] + params.p2u * (It - params.Ib)
              [] i = 7  -> -params.ki * (xx[7] - It)
              [] i = 8  -> -params.ki * (xx[8] - xx[7])
              [] i = 9  -> -(params.m1 + params.m30) * xx[9]
                           + params.m2 * xx[5]
              [] i = 10 -> insulin - (params.ka1 + params.kd) * xx[10]
              [] i = 11 -> params.kd * xx[10] - params.ka2 * xx[11]
              [] i = 12 -> -params.ksc * xx[12] + params.ksc * xx[3]
              [] i = 13 -> -params.k01g * xx[13] + SRt
              [] i = 14 -> -params.kXGn * xx[14]
                           + params.kXGn * Max(xx[13] - params.Gnb, 0)
              [] i = 15 -> IF It >= params.Ith
                           THEN -params.r2 * (xx[15] - Max(
                                   (params.kGSRs * (params.Gth - Gt))
                                      \div (It - params.Ith + 1)
                                   + params.SRb, 0))
                           ELSE -params.r2 * (xx[15] - Max(
                                   params.kGSRs * (params.Gth - Gt)
                                   + params.SRb, 0))
              [] i = 16 -> -(params.SQgluc_k1 + params.SQgluc_kc1) * xx[16]
              [] i = 17 -> params.SQgluc_k1 * xx[16]
                           - params.SQgluc_k2 * xx[17]]
    IN  [v |-> raw, nan |-> IF Kmt + xx[4] = 0 THEN {4} ELSE {}]

(* model(): the derivative vector.  False * inf is nan, so a clamp does not
   clear a non-finite component. *)
model(tt, xx, action, params, lq, lf) ==
    LET dyn == dynamics(xx, action, params, lq, lf) IN
    [v   |-> [i \in 0..17 |-> IF i \in ClampedComponents
                              THEN Clamp(xx[i], dyn.v[i]) ELSE dyn.v[i]],
     nan |-> dyn.nan]

ZeroVector == [i \in 0..17 |-> 0]

BaseVectors == {[i \in 0..17 |-> 1], [i \in 0..17 |-> -1]}

(* State vectors: a base vector with up to two components replaced *)
XInputs ==
    {[[base EXCEPT ![i] = v] EXCEPT ![j] = w] :
        base \in BaseVectors, i \in 0..17, j \in 0..17,
        v \in (-MaxX)..MaxX, w \in (-MaxX)..MaxX}

ModelIdle ==
    /\ x = ZeroVector
    /\ m_action = Action(0, 0)
    /\ m_last_Qsto = 0
    /\ m_last_foodtaken = 0
    /\ dxdt = [v |-> ZeroVector, nan |-> {}]
    /\ evaluated = FALSE

(* One evaluation of the right-hand side by the integrator *)
Eval ==
    /\ ~evaluated
    /\ dxdt' = model(t, x, m_action, PatientParams, m_last_Qsto,
                     m_last_foodtaken)
    /\ evaluated' = TRUE
    /\ UNCHANGED <<x, m_action, m_last_Qsto, m_last_foodtaken>>
    /\ UNCHANGED patientVars

(* The patient right after __init__(params, init_state, t0) *)
Fresh ==
    /\ planned_meal = 0
    /\ is_eating = FALSE
    /\ last_Qsto = init_state[0] + init_state[1]
    /\ last_foodtaken = 0
    /\ last_action = Action(0, 0)
    /\ f_params = <<>>
    /\ state = init_state
    /\ t = t0 * Resolution
    /\ success = TRUE

(* __init__: store init_state and t0, then reset() *)
PatientInit ==
    /\ init_state \in InitStates
    /\ t0 \in StartTimes
    /\ Fresh
    /\ op = "init"
    /\ outcome = "returned"
    /\ calls = 0
    /\ steps_total = 0
    /\ resets_total = 0
    /\ announced = 0
    /\ to_eat = 0
    /\ announced_total = 0
    /\ eaten_total = 0
    /\ episode_sum = 0

Init == PatientInit /\ ModelIdle

StepAny ==
    /\ steps_total + resets_total < MaxCalls
    /\ \E cho \in CHOInputs, ins \in InsulinInputs :
          /\ planned_meal + cho <= MaxBacklog
          /\ Step(Action(cho, ins))

ResetAny ==
    /\ steps_total + resets_total < MaxCalls
    /\ Reset

Next == StepAny \/ ResetAny

Spec == Init /\ [][Next]_vars

(* A single announcement, then silence: the first step announces some
   amount, every later step announces 0. *)
DrainAnnounce ==
    /\ op = "init"
    /\ \E amount \in DrainAmounts, ins \in InsulinInputs :
          Step(Action(amount, ins))

DrainWait ==
    /\ op = "step"
    /\ calls < MaxDrainCalls
    /\ \E ins \in InsulinInputs : Step(Action(0, ins))

DrainNext == DrainAnnounce \/ DrainWait

SpecDrain == Init /\ [][DrainNext]_vars

ModelInit ==
    /\ PatientInit
    /\ init_state = [i \in 0..1 |-> 0]
    /\ t0 = 0
    /\ x \in XInputs
    /\ m_action \in {Action(cho, ins) : cho \in {0, EAT_RATE},
                                        ins \in InsulinInputs}
    /\ m_last_Qsto \in {0, 2}
    /\ m_last_foodtaken \in {0, EAT_RATE}
    /\ dxdt = [v |-> ZeroVector, nan |-> {}]
    /\ evaluated = FALSE

ModelNext == Eval

SpecModel == ModelInit /\ [][ModelNext]_vars

----------------------------------------------------------------------------
(* C1: meal backlog conservation.  In every state reachable from reset(),
   the sum of the per-step ingestion amounts equals the sum of the announced
   amounts minus the backlog still planned.  (It holds for every announced
   amount, so in particular when all of them are >= 0.) *)
BacklogConservation == eaten_total = announced_total - planned_meal

BacklogConservationWitness ==
    /\ calls >= 2
    /\ eaten_total > EAT_RATE
    /\ planned_meal > 0

(* C2: ingestion rate cap.  With b the backlog before the step plus the
   announced amount, the CHO of the action handed to the integrator is
   min(EAT_RATE, b) if b > 0 and 0 otherwise, hence within 0..EAT_RATE. *)
IngestionCap ==
    [][op' = "step" =>
          LET b == planned_meal + announced' IN
          /\ f_params'[1].CHO = (IF b > 0 THEN Min(EAT_RATE, b) ELSE 0)
          /\ f_params'[1].CHO \in 0..EAT_RATE
          /\ to_eat' = f_params'[1].CHO]_vars

IngestionCapWitness ==
    /\ op = "step"
    /\ announced > EAT_RATE
    /\ f_params[1].CHO = EAT_RATE

(* C3: eating-episode flag.  After every step (and after reset) is_eating
   is true exactly when the step's ingestion amount was > 0. *)
EatingFlag == is_eating <=> (to_eat > 0)

EatingFlagWitness ==
    /\ is_eating
    /\ eaten_total > episode_sum

(* C4: draining one announcement.  After an announcement A > 0 on the first
   step and zeros afterwards, with K = ceil(A / EAT_RATE): steps before the
   K-th eat EAT_RATE, the K-th eats the rest and empties the backlog, later
   steps eat 0; is_eating is true on exactly the first K steps.  For
   A = 80 that is 5 g on each of 16 steps. *)
DrainTrace ==
    LET A == announced_total
        K == (A + EAT_RATE - 1) \div EAT_RATE
    IN  /\ calls = 0 => ~is_eating
        /\ calls >= 1 =>
              /\ calls < K => /\ to_eat = EAT_RATE
                              /\ planned_meal = A - EAT_RATE * calls
                              /\ planned_meal > 0
                              /\ is_eating
              /\ calls = K => /\ to_eat = A - EAT_RATE * (K - 1)
                              /\ to_eat \in 1..EAT_RATE
                              /\ planned_meal = 0
                              /\ is_eating
              /\ calls > K => /\ to_eat = 0
                              /\ planned_meal = 0
                              /\ ~is_eating
              /\ A = ScenarioCHO =>
                    /\ is_eating <=> calls \in 1..16
                    /\ to_eat = (IF calls <= 16 THEN 5 ELSE 0)
                    /\ planned_meal = 0 <=> calls >= 16

DrainTraceWitness ==
    /\ announced_total = ScenarioCHO
    /\ calls = 17
    /\ eaten_total = ScenarioCHO
    /\ ~is_eating

(* C5: no partial result on failure.  A step() call that raises leaves
   planned_meal, is_eating, last_Qsto, last_foodtaken, the previous action,
   the state vector and t as they were before the call. *)
NoPartialResult ==
    [][outcome' = "raised" =>
          UNCHANGED <<planned_meal, is_eating, last_Qsto, last_foodtaken,
                      last_action, state, t>>]_vars

(* C6: time advances by one sample period per step.  Every step() call that
   returns normally increases t by exactly SAMPLE_TIME. *)
TimeAdvance ==
    [][(op' = "step" /\ outcome' = "returned") =>
          t' = t + SAMPLE_TIME * Resolution]_vars

(* C7: reset() is independent of history.  After reset(), whatever steps
   came before, the patient is as it was right after construction. *)
ResetRestores == op = "reset" => Fresh

ResetRestoresWitness ==
    /\ op = "reset"
    /\ steps_total >= 2
    /\ resets_total >= 2

(* C8: the meal backlog is never negative, whatever amounts are announced. *)
BacklogNonNegative == planned_meal >= 0

(* C9: episode bookkeeping.  A step that starts an episode (it eats, the
   previous step did not) sets last_Qsto to state[0] + state[1] as read
   before integration and restarts last_foodtaken; after every step
   last_foodtaken is the sum of the ingestion amounts since the most recent
   episode start; a step taken while not eating that starts no episode
   changes neither; last_Qsto changes only on an episode start. *)
EpisodeBookkeeping ==
    [][op' = "step" =>
          LET starts == to_eat' > 0 /\ to_eat <= 0 IN
          /\ starts => /\ last_Qsto' = state[0] + state[1]
                       /\ last_foodtaken' = to_eat'
          /\ last_foodtaken' = episode_sum'
          /\ (~is_eating /\ ~starts) =>
                UNCHANGED <<last_Qsto, last_foodtaken>>
          /\ ~starts => last_Qsto' = last_Qsto]_vars

EpisodeBookkeepingWitness ==
    /\ is_eating
    /\ last_foodtaken > to_eat
    /\ last_Qsto # init_state[0] + init_state[1]

(* C10 as stated: every listed compartment, stomach and intestine included,
   has derivative 0 when its value is negative and the unclamped dynamics
   otherwise. *)
ClampsAllListed ==
    evaluated =>
       \A i \in {0, 1, 2, 3, 4, 5, 9, 10, 11, 12, 13, 15, 16, 17} :
          /\ i \notin dxdt.nan
          /\ dxdt.v[i] = IF x[i] < 0 THEN 0
                         ELSE dynamics(x, m_action, PatientParams,
                                       m_last_Qsto, m_last_foodtaken).v[i]

(* C10 amended: for x[3], x[4], x[5], x[9], x[10], x[11], x[12], x[13],
   x[15], x[16] and x[17], wherever the dynamics is finite, the derivative
   is 0 when the component is negative and the unclamped dynamics
   otherwise. *)
ClampsInCode ==
    evaluated =>
       \A i \in {3, 4, 5, 9, 10, 11, 12, 13, 15, 16, 17} \ dxdt.nan :
          dxdt.v[i] = IF x[i] < 0 THEN 0
                      ELSE dynamics(x, m_action, PatientParams,
                                    m_last_Qsto, m_last_foodtaken).v[i]

ClampsInCodeWitness ==
    /\ evaluated
    /\ x[12] < 0
    /\ x[3] > 0
    /\ dynamics(x, m_action, PatientParams,
                m_last_Qsto, m_last_foodtaken).v[12] > 0
    /\ dxdt.v[12] = 0

====
